---- MODULE Spec2Model ----
(***************************************************************************)
(* Model of Software/settings_manager.py: the SettingsManager singleton,   *)
(* its in-memory Settings Record (_settings), its JsonStore handle         *)
(* (_store) and the persisted JSON document the handle reads and writes.   *)
(*                                                                         *)
(* Values are modelled as strings.  The JsonStore is modelled by the       *)
(* calls the module makes on it (JsonStore(path), exists, get, put): the   *)
(* document maps a key to its stored record, a put that raises writes      *)
(* nothing, and values pass through JSON on their way to the document.     *)
(***************************************************************************)
EXTENDS Naturals, FiniteSets, TLC

VARIABLES instances, initialized, store, settings, doc, epoch, lastOp, lastSet

vars == <<instances, initialized, store, settings, doc, epoch, lastOp, lastSet>>

(***************************************************************************)
(* Bounds.                                                                 *)
(***************************************************************************)
MaxRestarts == 1

(***************************************************************************)
(* Values.                                                                 *)
(***************************************************************************)
NoneVal == "None"

\* A value JSON stores and reads back unchanged, a tuple (which JSON stores
\* as an array, read back as a list), and the list it is read back as.
PlainVal == "Inter"
TupleVal == "tuple"
ListVal == "list"

\* A value found in a document written by an earlier run.
StoredVal == "Saved"

\* A caller-supplied default handed to get().
CallerDefault == "fallback"

SetValues == {PlainVal, TupleVal}

\* Records a document can hold that are not {"value": v}: an object without
\* the "value" member, and a record that is not an object (reading its value
\* raises).
NoValueRecord == "{}"
BadRecord == "<not an object>"

DEFAULT_SETTINGS ==
    [font_name |-> "Roboto", font_scale |-> "1.0", launch_maximized |-> "False"]

DefaultKeys == DOMAIN DEFAULT_SETTINGS

UnknownKey == "theme"

AllKeys == DefaultKeys \cup {UnknownKey}

EmptyDoc == [k \in {} |-> NoneVal]

\* Documents a run can find on disk when it starts.
InitialDocs ==
    { EmptyDoc,
      [font_name |-> StoredVal, font_scale |-> NoValueRecord,
       launch_maximized |-> BadRecord] }

StoreNone == "None"
StoreOpen == "JsonStore"

\* dict.get(key, default)
DictGet(d, key, default) == IF key \in DOMAIN d THEN d[key] ELSE default

\* d[key] = value
DictPut(d, key, value) ==
    [x \in (DOMAIN d) \cup {key} |-> IF x = key THEN value ELSE d[x]]

\* json.dump followed by json.load: a tuple comes back as a list.
JsonRoundTrip(v) == IF v = TupleVal THEN ListVal ELSE v

\* lastSet[k]: the latest set on k that returned normally, with the state the
\* store was in; NoSet when there was none or a later set on k raised.
NoSet == [val |-> NoneVal, open |-> FALSE, any |-> FALSE]

WasSet(value, st) == [val |-> value, open |-> st = StoreOpen, any |-> TRUE]

\* lastOp: the latest call, its arguments, what it returned, whether the
\* store's put was made to fail and whether the call raised.
Op(op, key, val, ret, fault, raised) ==
    [op |-> op, key |-> key, val |-> val, ret |-> ret,
     fault |-> fault, raised |-> raised]

(***************************************************************************)
(* SettingsManager.__new__ and __init__, on the process state              *)
(* p = [instances, initialized, store, settings].                          *)
(***************************************************************************)
\* __new__ without the "is None" test: every construction makes an instance.
NewAlways(p) == [p EXCEPT !.instances = p.instances + 1, !.initialized = FALSE]

New(p) ==
    IF p.instances = 0
    THEN [p EXCEPT !.instances = 1, !.initialized = FALSE]
    ELSE p

\* __init__ without the "_initialized" guard: every construction resets.
ObjInitUnguarded(p) ==
    [p EXCEPT !.initialized = TRUE, !.store = StoreNone,
              !.settings = DEFAULT_SETTINGS]

ObjInit(p) ==
    IF p.initialized
    THEN p
    ELSE [p EXCEPT !.initialized = TRUE, !.store = StoreNone,
                   !.settings = DEFAULT_SETTINGS]

\* Class state of a process that has not imported the module yet.
FreshProcess ==
    [instances |-> 0, initialized |-> FALSE, store |-> StoreNone,
     settings |-> EmptyDoc]

Process ==
    [instances |-> instances, initialized |-> initialized, store |-> store,
     settings |-> settings]

SetProcess(p) ==
    /\ instances' = p.instances
    /\ initialized' = p.initialized
    /\ store' = p.store
    /\ settings' = p.settings

(***************************************************************************)
(* _load_settings: the value each Default Settings key gets from the       *)
(* document.                                                               *)
(***************************************************************************)
\* The value one key gets: stored.get('value', default) when the store has
\* the key and reading succeeds, the default otherwise.
LoadedValue(d, key) ==
    IF key \in DOMAIN d
    THEN IF d[key] = BadRecord THEN DEFAULT_SETTINGS[key]
         ELSE IF d[key] = NoValueRecord THEN DEFAULT_SETTINGS[key]
         ELSE d[key]
    ELSE DEFAULT_SETTINGS[key]

\* _load_settings without its else branch: a key the store lacks keeps its
\* in-memory value.
LoadSettingsKeepMissing(s, d) ==
    [x \in (DOMAIN s) \cup DefaultKeys |->
        IF x \in DefaultKeys /\ x \in DOMAIN d THEN LoadedValue(d, x) ELSE s[x]]

\* _load_settings that rebuilds the record from the keys the store has.
LoadSettingsRebuild(s, d) ==
    [x \in (DOMAIN d) \cap DefaultKeys |-> LoadedValue(d, x)]

LoadSettings(s, d) ==
    [x \in (DOMAIN s) \cup DefaultKeys |->
        IF x \in DefaultKeys THEN LoadedValue(d, x) ELSE s[x]]

\* get that lets a caller default win over the in-memory value.
GetCallerFirst(s, key, default) ==
    IF default # NoneVal THEN default
    ELSE DictGet(s, key, DictGet(DEFAULT_SETTINGS, key, NoneVal))

\* get that ignores the caller default.
GetNoCallerDefault(s, key, default) ==
    DictGet(s, key, DictGet(DEFAULT_SETTINGS, key, NoneVal))

\* SettingsManager.get
Get(s, key, default) ==
    DictGet(s, key,
            IF default # NoneVal THEN default
            ELSE DictGet(DEFAULT_SETTINGS, key, NoneVal))

\* _save_setting on an open store whose put succeeds.
SaveSetting(d, key, value) == DictPut(d, key, JsonRoundTrip(value))

(***************************************************************************)
(* Initial state: the module has been imported, which constructs the       *)
(* singleton (settings_manager = SettingsManager()).                       *)
(***************************************************************************)
Init ==
    /\ instances = ObjInit(New(FreshProcess)).instances
    /\ initialized = ObjInit(New(FreshProcess)).initialized
    /\ store = ObjInit(New(FreshProcess)).store
    /\ settings = ObjInit(New(FreshProcess)).settings
    /\ doc \in InitialDocs
    /\ epoch = 0
    /\ lastOp = Op("import", NoneVal, NoneVal, NoneVal, FALSE, FALSE)
    /\ lastSet = [k \in DefaultKeys |-> NoSet]

\* SettingsManager()
Construct ==
    /\ SetProcess(ObjInit(New(Process)))
    /\ lastOp' = Op("construct", NoneVal, NoneVal, NoneVal, FALSE, FALSE)
    /\ UNCHANGED <<doc, epoch, lastSet>>

\* initialize(): the path is resolved, the store opened, the settings loaded.
Initialize ==
    /\ store' = StoreOpen
    /\ settings' = LoadSettings(settings, doc)
    /\ lastOp' = Op("initialize", NoneVal, NoneVal, NoneVal, FALSE, FALSE)
    /\ UNCHANGED <<instances, initialized, doc, epoch, lastSet>>

\* initialize() when resolving the path or opening the store raises.
InitializeRaises ==
    /\ lastOp' = Op("initialize", NoneVal, NoneVal, NoneVal, TRUE, TRUE)
    /\ UNCHANGED <<instances, initialized, store, settings, doc, epoch, lastSet>>

\* get(key, default); the font_name, font_scale and launch_maximized
\* properties read through it with no caller default.
GetOp(key, default) ==
    /\ lastOp' = Op("get", key, default, Get(settings, key, default),
                    FALSE, FALSE)
    /\ UNCHANGED <<instances, initialized, store, settings, doc, epoch, lastSet>>

\* What set(key, value) does to the record, the document and the caller.
\* fault: the store's put raises.
\* set that restores the old value when the write fails.
SetMemoryRollback(s, key, value, fault) ==
    IF fault THEN s ELSE DictPut(s, key, value)

SetMemory(s, key, value, fault) == DictPut(s, key, value)

\* _save_setting that never reaches the store.
SetDocumentSkipped(d, st, key, value, fault) == d

\* _save_setting that writes under a fixed key.
SetDocumentWrongKey(d, st, key, value, fault) ==
    IF st = StoreNone THEN d
    ELSE IF fault THEN d
    ELSE SaveSetting(d, "font_name", value)

SetDocument(d, st, key, value, fault) ==
    IF st = StoreNone THEN d
    ELSE IF fault THEN d
    ELSE SaveSetting(d, key, value)

\* _save_setting without the "is None" guard: put on None raises.
SetRaisesUnguarded(st, fault) == st = StoreNone \/ fault

SetRaises(st, fault) == st # StoreNone /\ fault

\* set(key, value); the property setters write through it.
SetOp(key, value, fault) ==
    /\ fault => store = StoreOpen
    /\ settings' = SetMemory(settings, key, value, fault)
    /\ doc' = SetDocument(doc, store, key, value, fault)
    /\ lastOp' = Op("set", key, value, NoneVal, fault, SetRaises(store, fault))
    /\ lastSet' = IF key \in DefaultKeys
                  THEN [lastSet EXCEPT ![key] =
                          IF SetRaises(store, fault) THEN NoSet
                          ELSE WasSet(value, store)]
                  ELSE lastSet
    /\ UNCHANGED <<instances, initialized, store, epoch>>

\* get_settings_directory(): resolves the path, touches neither the record
\* nor the store.
GetSettingsDirectory ==
    /\ lastOp' = Op("get_settings_directory", NoneVal, NoneVal, NoneVal,
                    FALSE, FALSE)
    /\ UNCHANGED <<instances, initialized, store, settings, doc, epoch, lastSet>>

\* The process ends and a new one imports the module over the same file.
Restart ==
    /\ epoch < MaxRestarts
    /\ epoch' = epoch + 1
    /\ SetProcess(ObjInit(New(FreshProcess)))
    /\ lastOp' = Op("restart", NoneVal, NoneVal, NoneVal, FALSE, FALSE)
    /\ UNCHANGED <<doc, lastSet>>

Next ==
    \/ Construct
    \/ Initialize
    \/ InitializeRaises
    \/ \E key \in AllKeys, default \in {NoneVal, CallerDefault} :
          GetOp(key, default)
    \/ \E key \in DefaultKeys, value \in SetValues, fault \in BOOLEAN :
          SetOp(key, value, fault)
    \/ SetOp(UnknownKey, PlainVal, FALSE)
    \/ GetSettingsDirectory
    \/ Restart

Spec == Init /\ [][Next]_vars

(***************************************************************************)
(* Properties.                                                             *)
(***************************************************************************)
InitializeDone == lastOp.op = "initialize" /\ ~lastOp.raised

SetDone == lastOp.op = "set" /\ ~lastOp.raised

\* A record {"value": v} the store can read.
Readable(d, key) ==
    key \in DOMAIN d /\ d[key] \notin {NoValueRecord, BadRecord}

\* C1 as stated: after set(k, v) in any state of the store, a later
\* initialize() makes get(k) return v, when no other set on k intervened.
C1_AnySetSurvivesInitialize ==
    InitializeDone =>
        \A k \in DefaultKeys :
            lastSet[k].any => Get(settings, k, NoneVal) = lastSet[k].val

\* C1 amended: after set(k, v) returned normally on an initialized store, for
\* a value v that JSON reads back unchanged, a later initialize() (same
\* instance or a new process over the same file) makes get(k) return v, when
\* no other set on k intervened.
C1_PersistedSetSurvivesInitialize ==
    InitializeDone =>
        \A k \in DefaultKeys :
            (lastSet[k].any /\ lastSet[k].open
                /\ JsonRoundTrip(lastSet[k].val) = lastSet[k].val)
            => Get(settings, k, NoneVal) = lastSet[k].val

C1_Witness ==
    /\ InitializeDone
    /\ epoch = 1
    /\ \E k \in DefaultKeys :
          /\ lastSet[k] = WasSet(PlainVal, StoreOpen)
          /\ Get(settings, k, NoneVal) = PlainVal

\* C2 as stated: after every set(k, v) that returns normally, in any state,
\* the persisted value for k equals the in-memory value for k, both v.
C2_DocumentEqualsMemoryAfterSet ==
    SetDone =>
        /\ lastOp.key \in DOMAIN doc
        /\ doc[lastOp.key] = settings[lastOp.key]
        /\ settings[lastOp.key] = lastOp.val

\* C2 amended: after every set(k, v) that returns normally on an initialized
\* store, the in-memory value for k is v and the persisted value for k is v
\* as JSON stores it (v itself for a value JSON reads back unchanged).
C2_DocumentHoldsJsonOfMemoryAfterSet ==
    (SetDone /\ store = StoreOpen) =>
        /\ settings[lastOp.key] = lastOp.val
        /\ lastOp.key \in DOMAIN doc
        /\ doc[lastOp.key] = JsonRoundTrip(lastOp.val)
        /\ (JsonRoundTrip(lastOp.val) = lastOp.val
                => doc[lastOp.key] = settings[lastOp.key])

C2_Witness ==
    /\ SetDone
    /\ store = StoreOpen
    /\ lastOp.val = PlainVal
    /\ doc[lastOp.key] = PlainVal
    /\ settings[lastOp.key] = PlainVal

\* C3: after initialize() completes, every Default Settings key holds the
\* stored value when the store has a readable value for it and the default
\* otherwise; against an empty store get(k) is the default for every k,
\* whatever was set in memory before.
C3_InitializeLoadsStoredOrDefault ==
    InitializeDone =>
        /\ \A k \in DefaultKeys :
              settings[k] = IF Readable(doc, k) THEN doc[k]
                            ELSE DEFAULT_SETTINGS[k]
        /\ (doc = EmptyDoc =>
              \A k \in DefaultKeys :
                  Get(settings, k, NoneVal) = DEFAULT_SETTINGS[k])

C3_Witness ==
    /\ InitializeDone
    /\ doc = EmptyDoc
    /\ \E k \in DefaultKeys : lastSet[k] = WasSet(PlainVal, StoreNone)
    /\ settings = DEFAULT_SETTINGS

\* C4: in any state, set(k, v) immediately followed by get(k), with or
\* without a caller default, returns v.
C4_GetAfterSetReturnsValue ==
    (lastOp.op = "set" /\ lastOp.key \in DefaultKeys) =>
        \A default \in {NoneVal, CallerDefault} :
            Get(settings, lastOp.key, default) = lastOp.val

C4_Witness ==
    /\ lastOp.op = "set"
    /\ store = StoreNone
    /\ lastOp.val = TupleVal
    /\ Get(settings, lastOp.key, CallerDefault) = TupleVal

\* What C5 says get(key, default) returns on the record s.
GetContract(s, key, default) ==
    IF key \in DOMAIN s THEN s[key]
    ELSE IF default # NoneVal THEN default
    ELSE IF key \in DefaultKeys THEN DEFAULT_SETTINGS[key]
    ELSE NoneVal

\* C5: get(key, default) returns the in-memory value when the key is present,
\* else the caller default when given, else the module default, else none; it
\* never raises and changes neither the record nor the backing store.
C5_GetIsPureRead ==
    [][lastOp'.op = "get" =>
          /\ lastOp'.ret = GetContract(settings, lastOp'.key, lastOp'.val)
          /\ ~lastOp'.raised
          /\ settings' = settings
          /\ doc' = doc
          /\ store' = store]_vars

C5_Witness ==
    /\ lastOp.op = "get"
    /\ lastOp.key = UnknownKey
    /\ lastOp.val = NoneVal
    /\ lastOp.ret = NoneVal

C7_Singleton ==
    /\ instances = 1
    /\ [][/\ instances' = 1
          /\ lastOp'.op = "construct" =>
                /\ settings' = settings
                /\ store' = store
                /\ initialized' = initialized]_vars

C7_Witness ==
    /\ lastOp.op = "construct"
    /\ store = StoreOpen
    /\ settings # DEFAULT_SETTINGS

\* C8: a store starts uninitialized, only a completed initialize() makes it
\* initialized, and no call on an initialized store makes it uninitialized.
C8_LifecycleOneWay ==
    /\ store = StoreNone
    /\ [][/\ (epoch' # epoch => store' = StoreNone)
          /\ (store = StoreNone /\ store' = StoreOpen
                => lastOp'.op = "initialize" /\ ~lastOp'.raised)
          /\ (store = StoreOpen /\ epoch' = epoch => store' = StoreOpen)]_vars

C8_Witness ==
    /\ store = StoreOpen
    /\ lastOp.op = "initialize"
    /\ lastOp.raised

\* C9: set(k, v) on a store that was not initialized sets the in-memory value
\* of k to v, raises nothing and leaves the document as it is; the document
\* changes only in a set on an initialized store, by that set's key and value.
C9_UninitializedSetSkipsPersistence ==
    [][/\ (lastOp'.op = "set" /\ store = StoreNone) =>
              /\ settings'[lastOp'.key] = lastOp'.val
              /\ ~lastOp'.raised
              /\ doc' = doc
              /\ store' = StoreNone
       /\ doc' # doc =>
              /\ lastOp'.op = "set"
              /\ store = StoreOpen
              /\ doc' = DictPut(doc, lastOp'.key, JsonRoundTrip(lastOp'.val))]_vars

C9_Witness ==
    /\ SetDone
    /\ store = StoreNone
    /\ lastOp.key \notin DOMAIN doc
    /\ settings[lastOp.key] = lastOp.val

\* C10: in every state every Default Settings key is in the in-memory record,
\* so get(k) returns the in-memory value whatever default the caller gives.
C10_DefaultKeysAlwaysPresent ==
    \A k \in DefaultKeys :
        /\ k \in DOMAIN settings
        /\ \A default \in {NoneVal, CallerDefault} :
              Get(settings, k, default) = settings[k]

C10_Witness ==
    /\ InitializeDone
    /\ "launch_maximized" \in DOMAIN doc
    /\ doc["launch_maximized"] = BadRecord
    /\ settings["font_scale"] = ListVal
    /\ DefaultKeys \subseteq DOMAIN settings

====
